---- MODULE Spec2Model ----
(***************************************************************************)
(* Model of the structural differ of grader-uml-psi.                       *)
(*                                                                         *)
(* The repository holds the differ twice: the standalone script            *)
(* src/scripts/grade_uml_structure.py (impl = "script") and the grading    *)
(* script embedded in src/main.py (impl = "main").  Every operator that    *)
(* differs between the two copies takes impl as its first parameter.       *)
(*                                                                         *)
(* Python values are records tagged with the name of their Python type:    *)
(*   str      [t |-> "str",  s |-> text]                                   *)
(*   int      [t |-> "int",  s |-> str(v), n |-> v]                        *)
(*   float    [t |-> "float", s |-> str(v), n |-> v]   (integral floats)   *)
(*   bool     [t |-> "bool", s |-> "True"/"False", n |-> 1/0]              *)
(*   None     [t |-> "NoneType", s |-> "None"]                             *)
(*   dict     [t |-> "dict", keys |-> <<k1, ..>>, vals |-> <<v1, ..>>]     *)
(*            keys are the str keys in insertion order (JSON object keys)  *)
(*   list     [t |-> "list", items |-> <<v1, ..>>]                         *)
(* A call returns [exc |-> "", out |-> <<discrepancy strings>>], or        *)
(* [exc |-> name of the exception raised, out |-> <<>>].                   *)
(***************************************************************************)
EXTENDS Integers, Sequences, FiniteSets, TLC

(***************************************************************************)
(* Python values                                                           *)
(***************************************************************************)
VStr(s) == [t |-> "str", s |-> s]

VInt(n) == [t |-> "int", s |-> ToString(n), n |-> n]

VFloat(n) == [t |-> "float", s |-> ToString(n) \o ".0", n |-> n]

VBool(b) == [t |-> "bool", s |-> IF b THEN "True" ELSE "False", n |-> IF b THEN 1 ELSE 0]

VNone == [t |-> "NoneType", s |-> "None"]

VDict(keys, vals) == [t |-> "dict", keys |-> keys, vals |-> vals]

VList(items) == [t |-> "list", items |-> items]

EmptyDict == VDict(<<>>, <<>>)

EmptyList == VList(<<>>)

NumericTypes == {"int", "float", "bool"}

ScalarTypes == {"str", "int", "float", "bool", "NoneType"}

IsScalar(v) == v.t \in ScalarTypes

\* type(v).__name__
TypeName(v) == v.t

\* The spec's three variants of StructuredValue.
Kind(v) == IF v.t = "dict" THEN "Mapping" ELSE IF v.t = "list" THEN "Sequence" ELSE "Scalar"

(***************************************************************************)
(* Results of a call                                                       *)
(***************************************************************************)
Ok(out) == [exc |-> "", out |-> out]

Raise(e) == [exc |-> e, out |-> <<>>]

\* differences.extend(sub) / differences.append(..) after acc: an exception
\* raised while computing either part propagates.
Extend(acc, sub) ==
    IF acc.exc # "" THEN acc
    ELSE IF sub.exc # "" THEN sub
    ELSE Ok(acc.out \o sub.out)

(***************************************************************************)
(* Strings                                                                 *)
(***************************************************************************)
\* The characters of Java identifiers in code-point order; the position of
\* a character orders it.
Ascii == "0123456789ABCDEFGHIJKLMNOPQRSTUVWXYZ_abcdefghijklmnopqrstuvwxyz"

CodePoint(c) == CHOOSE i \in 1..Len(Ascii) : SubSeq(Ascii, i, i) = c

\* str.__lt__: lexicographic by code point.
RECURSIVE StrLess(_, _)
StrLess(a, b) ==
    IF Len(b) = 0 THEN FALSE
    ELSE IF Len(a) = 0 THEN TRUE
    ELSE LET ca == CodePoint(SubSeq(a, 1, 1))
             cb == CodePoint(SubSeq(b, 1, 1))
         IN IF ca # cb THEN ca < cb
            ELSE StrLess(SubSeq(a, 2, Len(a)), SubSeq(b, 2, Len(b)))

\* str.endswith
EndsWith(s, suffix) ==
    /\ Len(s) >= Len(suffix)
    /\ SubSeq(s, Len(s) - Len(suffix) + 1, Len(s)) = suffix

\* str.startswith
StartsWith(s, prefix) ==
    /\ Len(s) >= Len(prefix)
    /\ SubSeq(s, 1, Len(prefix)) = prefix

\* sep.join(strs) for a sequence of strings
RECURSIVE Join(_, _)
Join(sep, strs) ==
    IF Len(strs) = 0 THEN ""
    ELSE IF Len(strs) = 1 THEN strs[1]
    ELSE strs[1] \o sep \o Join(sep, Tail(strs))

Quote == "'"

\* repr(v): strings are quoted, containers render their elements by repr.
RECURSIVE PyRepr(_)
PyRepr(v) ==
    IF v.t = "str" THEN Quote \o v.s \o Quote
    ELSE IF v.t = "list"
        THEN "[" \o Join(", ", [i \in 1..Len(v.items) |-> PyRepr(v.items[i])]) \o "]"
    ELSE IF v.t = "dict"
        THEN "{" \o Join(", ", [i \in 1..Len(v.keys) |->
                                  Quote \o v.keys[i] \o Quote \o ": " \o PyRepr(v.vals[i])]) \o "}"
    ELSE v.s

\* str(v), what an f-string placeholder renders: strings are not quoted.
PyStr(v) == IF v.t = "str" THEN v.s ELSE PyRepr(v)

\* "sub in s" for two strings
Contains(s, sub) ==
    \E i \in 1..(Len(s) - Len(sub) + 1) : SubSeq(s, i, i + Len(sub) - 1) = sub

(***************************************************************************)
(* Python built-ins the differ relies on                                   *)
(***************************************************************************)
Range(f) == {f[i] : i \in DOMAIN f}

\* key in d
HasKey(d, key) == \E i \in 1..Len(d.keys) : d.keys[i] = key

\* d[key]
GetItem(d, key) == d.vals[CHOOSE i \in 1..Len(d.keys) : d.keys[i] = key]

\* d.get(key, default)
DictGet(d, key, default) == IF HasKey(d, key) THEN GetItem(d, key) ELSE default

\* a == b: numbers compare by value across int, float and bool; containers
\* compare element-wise, dicts regardless of key order; == never raises.
RECURSIVE PyEq(_, _)
PyEq(a, b) ==
    IF a.t \in NumericTypes /\ b.t \in NumericTypes THEN a.n = b.n
    ELSE IF a.t # b.t THEN FALSE
    ELSE IF a.t = "list"
        THEN /\ Len(a.items) = Len(b.items)
             /\ \A i \in 1..Len(a.items) : PyEq(a.items[i], b.items[i])
    ELSE IF a.t = "dict"
        THEN /\ Range(a.keys) = Range(b.keys)
             /\ \A i \in 1..Len(a.keys) : PyEq(a.vals[i], GetItem(b, a.keys[i]))
    ELSE a.s = b.s

\* list == list
SeqEq(xs, ys) ==
    /\ Len(xs) = Len(ys)
    /\ \A i \in 1..Len(xs) : PyEq(xs[i], ys[i])

\* The first index at which two sequences differ under ==, or 0.
FirstDiff(xs, ys) ==
    LET m == IF Len(xs) < Len(ys) THEN Len(xs) ELSE Len(ys)
        D == {i \in 1..m : ~PyEq(xs[i], ys[i])}
    IN IF D = {} THEN 0 ELSE CHOOSE i \in D : \A j \in D : i <= j

\* Whether a < b is defined: str with str, number with number, list with list
\* when the first differing elements are comparable.  Anything else raises
\* TypeError.
RECURSIVE Orderable(_, _)
Orderable(a, b) ==
    IF a.t = "str" /\ b.t = "str" THEN TRUE
    ELSE IF a.t \in NumericTypes /\ b.t \in NumericTypes THEN TRUE
    ELSE IF a.t = "list" /\ b.t = "list"
        THEN LET k == FirstDiff(a.items, b.items)
             IN k = 0 \/ Orderable(a.items[k], b.items[k])
    ELSE FALSE

\* a < b, where Orderable(a, b)
RECURSIVE PyLess(_, _)
PyLess(a, b) ==
    IF a.t = "str" THEN StrLess(a.s, b.s)
    ELSE IF a.t = "list"
        THEN LET k == FirstDiff(a.items, b.items)
             IN IF k = 0 THEN Len(a.items) < Len(b.items)
                ELSE PyLess(a.items[k], b.items[k])
    ELSE a.n < b.n

\* sorted(xs) raises TypeError when two of its elements cannot be ordered
\* (exact for scalar elements, where being orderable is an equivalence).
SortedRaises(xs) ==
    \E i, j \in 1..Len(xs) : i < j /\ ~Orderable(xs[j], xs[i])

\* Stable insertion of x into the sorted sequence xs.
RECURSIVE Insert(_, _)
Insert(xs, x) ==
    IF Len(xs) = 0 THEN <<x>>
    ELSE IF PyLess(x, xs[Len(xs)]) THEN Append(Insert(SubSeq(xs, 1, Len(xs) - 1), x), xs[Len(xs)])
    ELSE Append(xs, x)

\* sorted(xs), where ~SortedRaises(xs): stable, ascending.
RECURSIVE Sorted(_)
Sorted(xs) ==
    IF Len(xs) = 0 THEN <<>>
    ELSE Insert(Sorted(SubSeq(xs, 1, Len(xs) - 1)), xs[Len(xs)])

\* hash(v) raises TypeError for lists and dicts.
Hashable(v) == v.t \notin {"list", "dict"}

\* tuple(v) is defined for the iterable values.
Iterable(v) == v.t \in {"list", "str", "dict"}

\* tuple(v), where Iterable(v): the items of a list, the characters of a
\* str, the keys of a dict.
Tuple(v) ==
    IF v.t = "list" THEN v.items
    ELSE IF v.t = "str" THEN [i \in 1..Len(v.s) |-> VStr(SubSeq(v.s, i, i))]
    ELSE [i \in 1..Len(v.keys) |-> VStr(v.keys[i])]

\* Concatenation of the results of a sequence of calls made in order.
RECURSIVE ExtendAll(_)
ExtendAll(rs) ==
    IF Len(rs) = 0 THEN Ok(<<>>)
    ELSE Extend(rs[1], ExtendAll(Tail(rs)))

(***************************************************************************)
(* Key -> item maps built by dict comprehensions: a sequence of            *)
(* [key, item] pairs in insertion order.  A later entry with an equal key  *)
(* replaces the item and keeps the position and the key object of the      *)
(* first.                                                                  *)
(***************************************************************************)
(* Keys of the keyed collections                                           *)
(***************************************************************************)
\* MethodSig that reads the name by m['name']: KeyError without a name.
MethodSig_subscript(m) ==
    IF m.t # "dict" THEN [exc |-> "TypeError"]
    ELSE IF ~HasKey(m, "name") THEN [exc |-> "KeyError"]
    ELSE LET name == GetItem(m, "name")
             params == DictGet(m, "params", EmptyList)
         IN IF ~Iterable(params) THEN [exc |-> "TypeError"]
            ELSE IF ~Hashable(name) \/ \E i \in 1..Len(Tuple(params)) : ~Hashable(Tuple(params)[i])
                THEN [exc |-> "TypeError"]
            ELSE [exc |-> "", key |-> [name |-> name, params |-> Tuple(params)]]

\* (m.get('name', ''), tuple(m.get('params', [])))
MethodSig(m) ==
    IF m.t # "dict" THEN [exc |-> "AttributeError"]
    ELSE LET name == DictGet(m, "name", VStr(""))
             params == DictGet(m, "params", EmptyList)
         IN IF ~Iterable(params) THEN [exc |-> "TypeError"]
            ELSE IF ~Hashable(name) \/ \E i \in 1..Len(Tuple(params)) : ~Hashable(Tuple(params)[i])
                THEN [exc |-> "TypeError"]
            ELSE [exc |-> "", key |-> [name |-> name, params |-> Tuple(params)]]

MethodSigEq(a, b) == PyEq(a.name, b.name) /\ SeqEq(a.params, b.params)

\* FieldSig that keys a field by its type attribute.
FieldSig_by_type(f) ==
    IF f.t # "dict" THEN [exc |-> "AttributeError"]
    ELSE LET name == DictGet(f, "type", VStr(""))
         IN IF ~Hashable(name) THEN [exc |-> "TypeError"]
            ELSE [exc |-> "", key |-> name]

\* f.get('name', '')
FieldSig(f) ==
    IF f.t # "dict" THEN [exc |-> "AttributeError"]
    ELSE LET name == DictGet(f, "name", VStr(""))
         IN IF ~Hashable(name) THEN [exc |-> "TypeError"]
            ELSE [exc |-> "", key |-> name]

\* tuple(c.get('params', []))
CtorSig(c) ==
    IF c.t # "dict" THEN [exc |-> "AttributeError"]
    ELSE LET params == DictGet(c, "params", EmptyList)
         IN IF ~Iterable(params) THEN [exc |-> "TypeError"]
            ELSE IF \E i \in 1..Len(Tuple(params)) : ~Hashable(Tuple(params)[i])
                THEN [exc |-> "TypeError"]
            ELSE [exc |-> "", key |-> Tuple(params)]

\* ','.join(params) raises TypeError unless every element is a str.
JoinRaises(params) == \E i \in 1..Len(params) : params[i].t # "str"

JoinParams(params) == Join(",", [i \in 1..Len(params) |-> params[i].s])

\* {list(params)} in an f-string
ReprList(params) == PyRepr(VList(params))

\* The key of an entry of the keyed collection `kind`.
SigOf(kind, e) ==
    CASE kind = "methods" -> MethodSig(e)
      [] kind = "fields" -> FieldSig(e)
      [] kind = "constructors" -> CtorSig(e)

\* Equality of two keys of the keyed collection `kind` (class names are
\* keys of "classes").
KeyEq(kind, a, b) ==
    CASE kind = "methods" -> MethodSigEq(a, b)
      [] kind = "constructors" -> SeqEq(a, b)
      [] OTHER -> PyEq(a, b)

(***************************************************************************)
MapHas(m, key, kind) == \E i \in 1..Len(m) : KeyEq(kind, m[i].key, key)

MapGet(m, key, kind) == m[CHOOSE i \in 1..Len(m) : KeyEq(kind, m[i].key, key)].item

\* MapSet that keeps the first item of a key.
MapSet_keep_first(m, key, item, kind) ==
    IF MapHas(m, key, kind) THEN m
    ELSE Append(m, [key |-> key, item |-> item])

MapSet(m, key, item, kind) ==
    IF MapHas(m, key, kind)
    THEN [i \in 1..Len(m) |-> IF KeyEq(kind, m[i].key, key) THEN [key |-> m[i].key, item |-> item] ELSE m[i]]
    ELSE Append(m, [key |-> key, item |-> item])

\* {key(x): x for x in items}: the exception of the first item whose key
\* cannot be built or hashed, else the map.
BuildMap(items, kind) ==
    LET build[i \in 0..Len(items)] ==
            IF i = 0 THEN [exc |-> "", map |-> <<>>]
            ELSE LET prev == build[i - 1]
                     sig == SigOf(kind, items[i])
                 IN IF prev.exc # "" THEN prev
                    ELSE IF sig.exc # "" THEN [exc |-> sig.exc, map |-> <<>>]
                    ELSE [exc |-> "", map |-> MapSet(prev.map, sig.key, items[i], kind)]
    IN build[Len(items)]

(***************************************************************************)
(* The differ                                                              *)
(***************************************************************************)
RECURSIVE compare_values(_, _, _, _)
RECURSIVE compare_methods(_, _, _, _)
RECURSIVE compare_fields(_, _, _, _)
RECURSIVE compare_constructors(_, _, _, _)

\* The generic positional rule for two lists (the final else of the list
\* branch).  The embedded grader compares the elements only when the lengths
\* agree; the standalone script reports the lengths and still compares the
\* common prefix.
compare_positional(impl, ref_val, stu_val, path) ==
    LET n == Len(ref_val.items)
        k == Len(stu_val.items)
        m == IF n < k THEN n ELSE k
        elems == ExtendAll([i \in 1..m |->
                    compare_values(impl, ref_val.items[i], stu_val.items[i],
                                   path \o "[" \o ToString(i - 1) \o "]")])
    IN IF impl = "main"
       THEN IF n # k
            THEN Ok(<<path \o " - Length mismatch: expected " \o PyStr(ref_val)
                        \o ", got " \o PyStr(stu_val)>>)
            ELSE elems
       ELSE IF n # k
            THEN Extend(Ok(<<path \o " - Length mismatch: expected " \o PyStr(ref_val)
                        \o " (" \o ToString(n) \o " items), got " \o PyStr(stu_val)
                        \o " (" \o ToString(k) \o " items)">>), elems)
            ELSE elems

\* compare_sorted that sorts the candidate list only.
compare_sorted_candidate_only(ref_val, stu_val, path) ==
    IF SortedRaises(ref_val.items) \/ SortedRaises(stu_val.items) THEN Raise("TypeError")
    ELSE LET r == ref_val.items
             c == Sorted(stu_val.items)
         IN IF ~SeqEq(r, c)
            THEN Ok(<<path \o " - Content mismatch: expected " \o ReprList(r)
                        \o ", got " \o ReprList(c)>>)
            ELSE Ok(<<>>)

\* compare_sorted that compares the two lists as sets.
compare_sorted_as_sets(ref_val, stu_val, path) ==
    IF SortedRaises(ref_val.items) \/ SortedRaises(stu_val.items) THEN Raise("TypeError")
    ELSE LET r == Sorted(ref_val.items)
             c == Sorted(stu_val.items)
         IN IF Range(r) # Range(c)
            THEN Ok(<<path \o " - Content mismatch: expected " \o ReprList(r)
                        \o ", got " \o ReprList(c)>>)
            ELSE Ok(<<>>)

\* The extends / implements rule: both lists sorted, compared as lists.
compare_sorted(ref_val, stu_val, path) ==
    IF SortedRaises(ref_val.items) \/ SortedRaises(stu_val.items) THEN Raise("TypeError")
    ELSE LET r == Sorted(ref_val.items)
             c == Sorted(stu_val.items)
         IN IF ~SeqEq(r, c)
            THEN Ok(<<path \o " - Content mismatch: expected " \o ReprList(r)
                        \o ", got " \o ReprList(c)>>)
            ELSE Ok(<<>>)

\* compare_dicts that reports the keys only the candidate has first.
compare_dicts_extra_first(impl, ref_val, stu_val, path) ==
    Extend(
        ExtendAll([i \in 1..Len(stu_val.keys) |->
            LET key == stu_val.keys[i]
            IN IF ~HasKey(ref_val, key)
               THEN Ok(<<path \o "." \o key \o " - Extra key">>)
               ELSE Ok(<<>>)]),
        ExtendAll([i \in 1..Len(ref_val.keys) |->
            LET key == ref_val.keys[i]
            IN IF ~HasKey(stu_val, key)
               THEN Ok(<<path \o "." \o key \o " - Missing key">>)
               ELSE compare_values(impl, ref_val.vals[i], GetItem(stu_val, key),
                                   path \o "." \o key)]))

\* The dict branch: reference keys in reference order, then the keys only
\* the candidate has, in candidate order.
compare_dicts(impl, ref_val, stu_val, path) ==
    Extend(
        ExtendAll([i \in 1..Len(ref_val.keys) |->
            LET key == ref_val.keys[i]
            IN IF ~HasKey(stu_val, key)
               THEN Ok(<<path \o "." \o key \o " - Missing key">>)
               ELSE compare_values(impl, ref_val.vals[i], GetItem(stu_val, key),
                                   path \o "." \o key)]),
        ExtendAll([i \in 1..Len(stu_val.keys) |->
            LET key == stu_val.keys[i]
            IN IF ~HasKey(ref_val, key)
               THEN Ok(<<path \o "." \o key \o " - Extra key">>)
               ELSE Ok(<<>>)]))

\* type_mismatch with the two type names exchanged.
type_mismatch_swapped(ref_val, stu_val, path) ==
    Ok(<<path \o " - Type mismatch: expected " \o TypeName(stu_val)
            \o ", got " \o TypeName(ref_val)>>)

\* The report of two values of different types; nothing below is compared.
type_mismatch(ref_val, stu_val, path) ==
    Ok(<<path \o " - Type mismatch: expected " \o TypeName(ref_val)
            \o ", got " \o TypeName(stu_val)>>)

\* compare_scalars that renders the two values by repr, not str.
compare_scalars_repr(ref_val, stu_val, path) ==
    IF ~PyEq(ref_val, stu_val)
    THEN Ok(<<path \o " - Value mismatch: expected " \o PyRepr(ref_val)
                \o ", got " \o PyRepr(stu_val)>>)
    ELSE Ok(<<>>)

\* The final else: two values of one type that is neither dict nor list.
compare_scalars(ref_val, stu_val, path) ==
    IF ~PyEq(ref_val, stu_val)
    THEN Ok(<<path \o " - Value mismatch: expected " \o PyStr(ref_val)
                \o ", got " \o PyStr(stu_val)>>)
    ELSE Ok(<<>>)

compare_values(impl, ref_val, stu_val, path) ==
    IF TypeName(ref_val) # TypeName(stu_val)
    THEN type_mismatch(ref_val, stu_val, path)
    ELSE IF ref_val.t = "dict" THEN compare_dicts(impl, ref_val, stu_val, path)
    ELSE IF ref_val.t = "list"
        THEN IF EndsWith(path, ".methods")
                THEN compare_methods(impl, ref_val.items, stu_val.items, path)
             ELSE IF EndsWith(path, ".fields")
                THEN compare_fields(impl, ref_val.items, stu_val.items, path)
             ELSE IF EndsWith(path, ".constructors")
                THEN compare_constructors(impl, ref_val.items, stu_val.items, path)
             ELSE IF EndsWith(path, ".extends") \/ EndsWith(path, ".implements")
                THEN compare_sorted(ref_val, stu_val, path)
             ELSE compare_positional(impl, ref_val, stu_val, path)
    ELSE compare_scalars(ref_val, stu_val, path)

compare_methods(impl, ref_methods, stu_methods, path) ==
    LET ref_map == BuildMap(ref_methods, "methods")
        stu_map == BuildMap(stu_methods, "methods")
    IN IF ref_map.exc # "" THEN Raise(ref_map.exc)
       ELSE IF stu_map.exc # "" THEN Raise(stu_map.exc)
       ELSE Extend(
            ExtendAll([i \in 1..Len(ref_map.map) |->
                LET sig == ref_map.map[i].key
                IN IF ~MapHas(stu_map.map, sig, "methods")
                   THEN Ok(<<path \o " - Missing method: " \o PyStr(sig.name)
                               \o " with params " \o ReprList(sig.params)>>)
                   ELSE IF JoinRaises(sig.params) THEN Raise("TypeError")
                   ELSE compare_values(impl, ref_map.map[i].item,
                            MapGet(stu_map.map, sig, "methods"),
                            path \o "." \o PyStr(sig.name) \o "(" \o JoinParams(sig.params) \o ")")]),
            ExtendAll([i \in 1..Len(stu_map.map) |->
                LET sig == stu_map.map[i].key
                IN IF ~MapHas(ref_map.map, sig, "methods")
                   THEN Ok(<<path \o " - Extra method: " \o PyStr(sig.name)
                               \o " with params " \o ReprList(sig.params)>>)
                   ELSE Ok(<<>>)]))

\* compare_fields without the loop over the candidate's fields.
compare_fields_no_extra(impl, ref_fields, stu_fields, path) ==
    LET ref_map == BuildMap(ref_fields, "fields")
        stu_map == BuildMap(stu_fields, "fields")
    IN IF ref_map.exc # "" THEN Raise(ref_map.exc)
       ELSE IF stu_map.exc # "" THEN Raise(stu_map.exc)
       ELSE ExtendAll([i \in 1..Len(ref_map.map) |->
                LET name == ref_map.map[i].key
                IN IF ~MapHas(stu_map.map, name, "fields")
                   THEN Ok(<<path \o " - Missing field: " \o PyStr(name)>>)
                   ELSE compare_values(impl, ref_map.map[i].item,
                            MapGet(stu_map.map, name, "fields"),
                            path \o "." \o PyStr(name))])

compare_fields(impl, ref_fields, stu_fields, path) ==
    LET ref_map == BuildMap(ref_fields, "fields")
        stu_map == BuildMap(stu_fields, "fields")
    IN IF ref_map.exc # "" THEN Raise(ref_map.exc)
       ELSE IF stu_map.exc # "" THEN Raise(stu_map.exc)
       ELSE Extend(
            ExtendAll([i \in 1..Len(ref_map.map) |->
                LET name == ref_map.map[i].key
                IN IF ~MapHas(stu_map.map, name, "fields")
                   THEN Ok(<<path \o " - Missing field: " \o PyStr(name)>>)
                   ELSE compare_values(impl, ref_map.map[i].item,
                            MapGet(stu_map.map, name, "fields"),
                            path \o "." \o PyStr(name))]),
            ExtendAll([i \in 1..Len(stu_map.map) |->
                LET name == stu_map.map[i].key
                IN IF ~MapHas(ref_map.map, name, "fields")
                   THEN Ok(<<path \o " - Extra field: " \o PyStr(name)>>)
                   ELSE Ok(<<>>)]))

compare_constructors(impl, ref_ctors, stu_ctors, path) ==
    LET ref_map == BuildMap(ref_ctors, "constructors")
        stu_map == BuildMap(stu_ctors, "constructors")
    IN IF ref_map.exc # "" THEN Raise(ref_map.exc)
       ELSE IF stu_map.exc # "" THEN Raise(stu_map.exc)
       ELSE Extend(
            ExtendAll([i \in 1..Len(ref_map.map) |->
                LET params == ref_map.map[i].key
                IN IF ~MapHas(stu_map.map, params, "constructors")
                   THEN Ok(<<path \o " - Missing constructor with params " \o ReprList(params)>>)
                   ELSE IF JoinRaises(params) THEN Raise("TypeError")
                   ELSE compare_values(impl, ref_map.map[i].item,
                            MapGet(stu_map.map, params, "constructors"),
                            path \o ".constructor(" \o JoinParams(params) \o ")")]),
            ExtendAll([i \in 1..Len(stu_map.map) |->
                LET params == stu_map.map[i].key
                IN IF ~MapHas(ref_map.map, params, "constructors")
                   THEN Ok(<<path \o " - Extra constructor with params " \o ReprList(params)>>)
                   ELSE Ok(<<>>)]))

(***************************************************************************)
(* The corpus comparator                                                   *)
(***************************************************************************)
\* NameSig that keeps an item without a name under the key "Unknown".
NameSig_unknown(item) ==
    IF item.t = "dict"
    THEN IF ~HasKey(item, "name") THEN [exc |-> "", skip |-> FALSE, key |-> VStr("Unknown")]
         ELSE IF ~Hashable(GetItem(item, "name")) THEN [exc |-> "TypeError"]
         ELSE [exc |-> "", skip |-> FALSE, key |-> GetItem(item, "name")]
    ELSE [exc |-> "TypeError"]

\* The filter and the key of one item of
\* {item["name"]: item for item in data if "name" in item}.
NameSig(item) ==
    IF item.t = "dict"
    THEN IF ~HasKey(item, "name") THEN [exc |-> "", skip |-> TRUE]
         ELSE IF ~Hashable(GetItem(item, "name")) THEN [exc |-> "TypeError"]
         ELSE [exc |-> "", skip |-> FALSE, key |-> GetItem(item, "name")]
    ELSE IF item.t = "list"
    THEN IF \E i \in 1..Len(item.items) : PyEq(item.items[i], VStr("name"))
         THEN [exc |-> "TypeError"]
         ELSE [exc |-> "", skip |-> TRUE]
    ELSE IF item.t = "str"
    THEN IF Contains(item.s, "name") THEN [exc |-> "TypeError"]
         ELSE [exc |-> "", skip |-> TRUE]
    ELSE [exc |-> "TypeError"]

\* The name-keyed form of a corpus: a list is keyed by the name attribute of
\* its items, a dict (a JSON object, or the dict process_directory builds)
\* is taken as it is.  The corpus is a list or a dict.
NormalizeCorpus(data) ==
    IF data.t = "list"
    THEN LET items == data.items
             build[i \in 0..Len(items)] ==
                IF i = 0 THEN [exc |-> "", map |-> <<>>]
                ELSE LET prev == build[i - 1]
                         sig == NameSig(items[i])
                     IN IF prev.exc # "" THEN prev
                        ELSE IF sig.exc # "" THEN [exc |-> sig.exc, map |-> <<>>]
                        ELSE IF sig.skip THEN prev
                        ELSE [exc |-> "", map |-> MapSet(prev.map, sig.key, items[i], "classes")]
         IN build[Len(items)]
    ELSE [exc |-> "", map |-> [i \in 1..Len(data.keys) |->
                                [key |-> VStr(data.keys[i]), item |-> data.vals[i]]]]

\* compare_uml_files without the loop over the candidate's classes.
compare_uml_files_no_extra(impl, ref_data, student_data) ==
    LET ref_map == NormalizeCorpus(ref_data)
        stu_map == NormalizeCorpus(student_data)
    IN IF ref_map.exc # "" THEN Raise(ref_map.exc)
       ELSE IF stu_map.exc # "" THEN Raise(stu_map.exc)
       ELSE ExtendAll([i \in 1..Len(ref_map.map) |->
                LET class_name == ref_map.map[i].key
                IN IF ~MapHas(stu_map.map, class_name, "classes")
                   THEN Ok(<<"Missing class: " \o PyStr(class_name)>>)
                   ELSE compare_values(impl, ref_map.map[i].item,
                            MapGet(stu_map.map, class_name, "classes"),
                            "Class " \o PyStr(class_name))])

compare_uml_files(impl, ref_data, student_data) ==
    LET ref_map == NormalizeCorpus(ref_data)
        stu_map == NormalizeCorpus(student_data)
    IN IF ref_map.exc # "" THEN Raise(ref_map.exc)
       ELSE IF stu_map.exc # "" THEN Raise(stu_map.exc)
       ELSE Extend(
            ExtendAll([i \in 1..Len(ref_map.map) |->
                LET class_name == ref_map.map[i].key
                IN IF ~MapHas(stu_map.map, class_name, "classes")
                   THEN Ok(<<"Missing class: " \o PyStr(class_name)>>)
                   ELSE compare_values(impl, ref_map.map[i].item,
                            MapGet(stu_map.map, class_name, "classes"),
                            "Class " \o PyStr(class_name))]),
            ExtendAll([i \in 1..Len(stu_map.map) |->
                LET class_name == stu_map.map[i].key
                IN IF ~MapHas(ref_map.map, class_name, "classes")
                   THEN Ok(<<"Extra class: " \o PyStr(class_name)>>)
                   ELSE Ok(<<>>)]))

\* The two argument objects after a call of compare_values: the function
\* reads them only.  It appends to its own list differences, sorted() builds
\* new lists and the key maps of compare_methods, compare_fields and
\* compare_constructors are new dicts; no statement assigns into, appends
\* to or sorts in place a value reachable from an argument.
args_after_compare_values(impl, ref_val, stu_val, path) ==
    [ref |-> ref_val, stu |-> stu_val]

\* args_after_compare_uml_files with the normalisation done in place: a
\* list argument becomes the dict keyed by class name.
args_after_normalised_in_place(impl, ref_data, student_data) ==
    LET after(data) ==
            LET m == NormalizeCorpus(data)
            IN IF m.exc # "" THEN data
               ELSE VDict([i \in 1..Len(m.map) |-> PyStr(m.map[i].key)],
                          [i \in 1..Len(m.map) |-> m.map[i].item])
    IN [ref |-> after(ref_data), stu |-> after(student_data)]

\* The two argument objects after a call of compare_uml_files: the
\* normalisation binds the local names ref_data and student_data to new
\* dicts and leaves the lists passed in as they were; the rest reads only.
args_after_compare_uml_files(impl, ref_data, student_data) ==
    [ref |-> ref_data, stu |-> student_data]

(***************************************************************************)
(* Bounded inputs                                                          *)
(***************************************************************************)
\* Longest list of the generic values and of extends / implements.
MaxLen == 2

\* Most entries of a fields / methods / constructors list.
MaxItems == 2

\* Most classes of a corpus given as a list.
MaxClasses == 3

SeqsUpTo(S, n) == UNION {[1..k -> S] : k \in 0..n}

\* The two copies of the differ.
Impls == {"script", "main"}

Scalars == {VStr("int"), VStr("long"), VInt(1), VInt(2), VFloat(1), VBool(TRUE), VNone}

Elems == {VStr("int"), VInt(1), VList(<<VStr("int")>>)}

Lists == {VList(xs) : xs \in SeqsUpTo(Elems, MaxLen)}

KeySeqs == {<<>>, <<"a">>, <<"b">>, <<"a", "b">>, <<"b", "a">>}

DictVals == {VStr("int"), VInt(1), VList(<<VStr("int")>>), VDict(<<"a">>, <<VStr("int")>>)}

Dicts == UNION {{VDict(ks, vs) : vs \in [1..Len(ks) -> DictVals]} : ks \in KeySeqs}

\* Generic StructuredValues: scalars of every type, lists and mappings with
\* scalar and nested elements.
Values == Scalars \cup Lists \cup Dicts

\* Paths of a generic attribute, of two class-level attributes with a
\* strategy of their own, and of an attribute called extends inside the
\* field x.
ValuePaths ==
    {"Class Foo.attr", "Class Foo.extends", "Class Foo.fields", "Class Foo.fields.x.extends"}

\* Class structures with one collection attribute each.
Field(name, type) == VDict(<<"name", "type">>, <<VStr(name), VStr(type)>>)

StrList(strs) == VList([i \in 1..Len(strs) |-> VStr(strs[i])])

Method(name, params, ret) ==
    VDict(<<"name", "params", "returnType">>, <<VStr(name), StrList(params), VStr(ret)>>)

Ctor(params, vis) == VDict(<<"params", "visibility">>, <<StrList(params), VStr(vis)>>)

FieldEntries ==
    {Field("x", "int"), Field("x", "long"), Field("y", "int"), VDict(<<"type">>, <<VStr("int")>>)}

MethodEntries ==
    {Method("m", <<"int">>, "void"), Method("m", <<"int">>, "int"),
     Method("m", <<"int", "String">>, "void"), Method("n", <<>>, "void")}

CtorEntries ==
    {Ctor(<<"int">>, "public"), Ctor(<<"int">>, "private"),
     Ctor(<<>>, "public"), Ctor(<<"String", "int">>, "public")}

TypeNames == {VStr("A"), VStr("B"), VStr("C")}

KeyedAttrs == {"fields", "methods", "constructors"}

SortedAttrs == {"extends", "implements"}

AttrLists(attr) ==
    IF attr = "fields" THEN {VList(xs) : xs \in SeqsUpTo(FieldEntries, MaxItems)}
    ELSE IF attr = "methods" THEN {VList(xs) : xs \in SeqsUpTo(MethodEntries, MaxItems)}
    ELSE IF attr = "constructors" THEN {VList(xs) : xs \in SeqsUpTo(CtorEntries, MaxItems)}
    ELSE {VList(xs) : xs \in SeqsUpTo(TypeNames, MaxLen)}

ClassWith(name, attr, val) == VDict(<<"name", attr>>, <<VStr(name), val>>)

FullClass(name, ext, fields, methods, ctors) ==
    VDict(<<"name", "fields", "methods", "constructors", "extends", "implements">>,
          <<VStr(name), VList(fields), VList(methods), VList(ctors), StrList(ext), StrList(<<>>)>>)

\* Scenario 1 of the spec, and two variants of it.
Foo1 == FullClass("Foo", <<>>, <<Field("x", "int")>>, <<>>, <<>>)

Foo2 == FullClass("Foo", <<>>, <<Field("x", "long")>>, <<>>, <<>>)

Foo3 == FullClass("Foo", <<"B", "A">>, <<Field("y", "int"), Field("x", "int")>>,
                  <<Method("m", <<"int">>, "void")>>, <<Ctor(<<>>, "public")>>)

Bar1 == FullClass("Bar", <<"A">>, <<>>, <<Method("n", <<>>, "void")>>, <<>>)

\* An extracted structure without a name attribute.
NoName == VDict(<<"fields">>, <<VList(<<Field("x", "int")>>)>>)

FullClasses == {Foo1, Foo2, Foo3}

\* The collection attributes a class structure is given one at a time.
ClassAttrs == KeyedAttrs \cup SortedAttrs

\* Entries that lack the attributes their key is built from, beside
\* entries that have them: a field without a name and one named "", a
\* method without a name, one without params and one named "", a
\* constructor without params and one with none.
MalformedEntries(attr) ==
    IF attr = "fields"
    THEN {VDict(<<"type">>, <<VStr("int")>>), Field("", "long"), Field("x", "int")}
    ELSE IF attr = "methods"
    THEN {VDict(<<"params", "returnType">>, <<StrList(<<"int">>), VStr("void")>>),
          VDict(<<"name", "returnType">>, <<VStr("m"), VStr("int")>>),
          Method("", <<"int">>, "int"), Method("m", <<"int">>, "void")}
    ELSE {VDict(<<"visibility">>, <<VStr("public")>>), Ctor(<<>>, "private"),
          Ctor(<<"int">>, "public")}

MalformedLists(attr) == {VList(xs) : xs \in SeqsUpTo(MalformedEntries(attr), MaxItems)}

\* Corpora: lists as generate_structure writes them, dicts as
\* process_directory builds them (keyed by name, or by "Unknown").
CorpusClasses == {Foo1, Foo2, Bar1, NoName}

CorpusLists == {VList(xs) : xs \in SeqsUpTo(CorpusClasses, MaxClasses)}

\* Class Foo with an attribute compared by the positional rule.
FooMods1 == ClassWith("Foo", "modifiers", StrList(<<"public">>))

FooMods2 == ClassWith("Foo", "modifiers", StrList(<<"final", "abstract">>))

CorpusDicts ==
    {EmptyDict, VDict(<<"Bar">>, <<Bar1>>), VDict(<<"Unknown">>, <<NoName>>),
     VDict(<<"Foo">>, <<FooMods1>>), VDict(<<"Foo">>, <<FooMods2>>)}
    \cup UNION {{VDict(<<"Foo">>, <<f>>), VDict(<<"Foo", "Bar">>, <<f, Bar1>>),
                 VDict(<<"Bar", "Foo">>, <<Bar1, f>>)} : f \in {Foo1, Foo2}}

Corpora == CorpusLists \cup CorpusDicts

\* Candidate corpora: the dicts, and two lists.
CandidateCorpora == CorpusDicts \cup {VList(<<Foo1>>), VList(<<Bar1, Foo2>>)}

(***************************************************************************)
(* State: one call of an entry point of the differ.                        *)
(***************************************************************************)
VARIABLES impl, op, ref, stu, path, pc, result

(***************************************************************************)
(* State of a grading run (process_submissions of the embedded grader,     *)
(* process_student_submissions of the standalone script): ref holds        *)
(* ref_data, and                                                           *)
(*   jar_files    the submissions still to process, as student ids         *)
(*   results      the rows <<student_id, status, comments>> so far         *)
(*   json_out     student id -> the student_data dumped to <id>.json       *)
(*   output_json  the file output.json the extractor writes                *)
(*   reports      the rows of the CSV reports, once written                *)
(*   attempts     per submission processed, whether a run of the extractor *)
(*                failed, whether compare_uml_files was called, and        *)
(*                whether data was loaded from a stale output.json         *)
(*   extract_dirs the temporary extraction directories that exist (named   *)
(*                by the submission they were made for)                    *)
(***************************************************************************)
VARIABLES jar_files, results, json_out, output_json, reports, attempts, extract_dirs

(***************************************************************************)
(* State of a run of one of the procedures that work in a Docker container *)
(* (build_structure_extractor and run_grading_container of main.py, main   *)
(* of scripts/build.py): pc is the step about to run, result the way the   *)
(* process ends (an exception name once it is aborting), and               *)
(*   proc       the procedure                                              *)
(*   container  "none", "running", "stopped" or "removed"                  *)
(*   trace      the Docker operations attempted so far, with outcomes      *)
(***************************************************************************)
VARIABLES proc, container, trace

differ_vars == <<impl, op, ref, stu, path, pc, result>>

run_vars == <<jar_files, results, json_out, output_json, reports, attempts, extract_dirs>>

build_vars == <<proc, container, trace>>

vars ==
    <<impl, op, ref, stu, path, pc, result, jar_files, results, json_out, output_json, reports,
      attempts, extract_dirs, proc, container, trace>>

Absent == [present |-> FALSE]

\* No grading run takes place in a call of the differ alone.
NoRun ==
    /\ jar_files = <<>>
    /\ results = <<>>
    /\ json_out = <<>>
    /\ output_json = Absent
    /\ reports = <<>>
    /\ attempts = <<>>
    /\ extract_dirs = {}

\* No container is used by a call of the differ or by the grading loop.
NoBuild ==
    /\ proc = ""
    /\ container = "none"
    /\ trace = <<>>

\* compare_values(ref_val, stu_val, path) on generic values
InitValue ==
    /\ NoRun
    /\ NoBuild
    /\ impl \in Impls
    /\ op = "compare_values"
    /\ ref \in Values
    /\ stu \in Values
    /\ path \in ValuePaths
    /\ pc = "call"
    /\ result = Ok(<<>>)

CallCompareValues ==
    /\ pc = "call"
    /\ op = "compare_values"
    /\ result' = compare_values(impl, ref, stu, path)
    /\ ref' = args_after_compare_values(impl, ref, stu, path).ref
    /\ stu' = args_after_compare_values(impl, ref, stu, path).stu
    /\ pc' = "done"
    /\ UNCHANGED <<impl, op, path>>
    /\ UNCHANGED run_vars
    /\ UNCHANGED build_vars

CallCompareUmlFiles ==
    /\ pc = "call"
    /\ op = "compare_uml_files"
    /\ result' = compare_uml_files(impl, ref, stu)
    /\ ref' = args_after_compare_uml_files(impl, ref, stu).ref
    /\ stu' = args_after_compare_uml_files(impl, ref, stu).stu
    /\ pc' = "done"
    /\ UNCHANGED <<impl, op, path>>
    /\ UNCHANGED run_vars
    /\ UNCHANGED build_vars

\* compare_values(ref, stu, "Class <name>") on two structures of a class
InitClass ==
    /\ NoRun
    /\ NoBuild
    /\ impl \in Impls
    /\ op = "compare_values"
    /\ \/ \E attr \in ClassAttrs :
             /\ ref \in {ClassWith("Foo", attr, a) : a \in AttrLists(attr)}
             /\ stu \in {ClassWith("Foo", attr, b) : b \in AttrLists(attr)}
       \/ ref \in FullClasses /\ stu \in FullClasses
    /\ path = "Class Foo"
    /\ pc = "call"
    /\ result = Ok(<<>>)

\* compare_uml_files(ref_data, student_data) on two corpora
InitCorpus ==
    /\ NoRun
    /\ NoBuild
    /\ impl \in Impls
    /\ op = "compare_uml_files"
    /\ ref \in Corpora
    /\ stu \in CandidateCorpora \cup {ref}
    /\ path = ""
    /\ pc = "call"
    /\ result = Ok(<<>>)

\* compare_values(ref, stu, "Class <name>") on two structures whose keyed
\* collection holds entries without name or params
InitMalformed ==
    /\ NoRun
    /\ NoBuild
    /\ impl \in Impls
    /\ op = "compare_values"
    /\ \E attr \in KeyedAttrs :
        /\ ref \in {ClassWith("Foo", attr, a) : a \in MalformedLists(attr)}
        /\ stu \in {ClassWith("Foo", attr, b) : b \in MalformedLists(attr)}
    /\ path = "Class Foo"
    /\ pc = "call"
    /\ result = Ok(<<>>)

InitDiffer == InitValue \/ InitClass \/ InitMalformed \/ InitCorpus

NextDiffer == CallCompareValues \/ CallCompareUmlFiles

SpecDiffer == InitDiffer /\ [][NextDiffer]_vars

(***************************************************************************)
(* The grading run                                                         *)
(***************************************************************************)
\* Most submissions of a run.
MaxJars == 2

\* Most target files found in one submission.
MaxFiles == 2

\* An extracted structure the differ cannot digest: fields is a list of
\* names.
Odd == VDict(<<"name", "fields">>, <<VStr("Foo"), StrList(<<"x">>)>>)

\* One run of "java -jar structure-extractor.jar <file>".  The extractor is
\* an external program: it exits 0 having written output.json ("ok", with
\* the structure; "garbage", with text that is no JSON), exits 0 without
\* writing ("silent"), exits non-zero with ParseProblemException on stderr
\* ("parse") or without ("crash"), exits non-zero after it has written
\* output.json ("crash_written"), or does not end in time ("timeout").
ExtractorRuns ==
    {[kind |-> "ok", data |-> d] : d \in {Foo1, Foo2, Bar1, NoName, Odd}}
    \cup {[kind |-> k] : k \in {"garbage", "silent", "parse", "crash", "timeout"}}
    \cup {[kind |-> "crash_written", data |-> Foo2]}

\* The runs in which the extractor crashes, reports a parse error or does
\* not end in time.
FailedRuns == {"crash", "crash_written", "parse", "timeout"}

\* What unzip does: exits 0, exits non-zero, does not end in time, or
\* cannot be started.
UnzipOutcomes == {"ok", "nonzero", "timeout", "oserror"}

StudentIds == {"s" \o ToString(i) : i \in 1..MaxJars}

\* The orders in which os.walk may list the submissions.
JarLists ==
    {js \in SeqsUpTo(StudentIds, MaxJars) : \A i, j \in 1..Len(js) : i # j => js[i] # js[j]}

\* solution.json: the list generate_solution_json writes.
Solutions == {VList(<<Foo1>>), VList(<<Foo1, Bar1>>), VList(<<Bar1, Foo3>>)}

\* extract_jar: the embedded grader succeeds when unzip exits 0 within 30 s;
\* the standalone script succeeds unless starting unzip raises (it sets no
\* timeout and does not read the exit code).
extract_jar(impl_, unzip) ==
    IF impl_ = "main" THEN unzip = "ok"
    ELSE unzip # "oserror"

\* output.json after the extractor has run.
AfterExtractor(run, file) ==
    IF run.kind \in {"ok", "crash_written"}
    THEN [present |-> TRUE, json |-> TRUE, data |-> run.data]
    ELSE IF run.kind = "garbage" THEN [present |-> TRUE, json |-> FALSE]
    ELSE file

\* process_file_with_structure_jar: the value returned ("none" for None,
\* "parse_error" for "PARSE_ERROR", "data" with the loaded JSON) and
\* output.json afterwards.
process_file_with_structure_jar(impl_, run, file) ==
    LET written == AfterExtractor(run, file)
    IN IF run.kind = "timeout" THEN [ret |-> "none", file |-> written]
       ELSE IF run.kind = "parse"
            THEN [ret |-> IF impl_ = "main" THEN "parse_error" ELSE "none", file |-> written]
       ELSE IF run.kind \in {"crash", "crash_written"} THEN [ret |-> "none", file |-> written]
       ELSE IF ~written.present THEN [ret |-> "none", file |-> written]
       ELSE IF ~written.json THEN [ret |-> "none", file |-> written]
       ELSE [ret |-> "data", data |-> written.data, file |-> Absent]

\* result[key] = val for a dict with str keys
DictSetItem(d, key, val) ==
    IF HasKey(d, key)
    THEN VDict(d.keys, [i \in 1..Len(d.keys) |-> IF d.keys[i] = key THEN val ELSE d.vals[i]])
    ELSE VDict(Append(d.keys, key), Append(d.vals, val))

\* process_directory over the target files found, one extractor run each:
\* the value returned ("none", "parse_error", or "data" with the dict keyed
\* by class name), output.json afterwards, and whether a file's data was
\* loaded from an output.json that the run for that file did not write
\* (stale).
process_directory(impl_, runs, file) ==
    LET step[i \in 0..Len(runs)] ==
            IF i = 0
            THEN [ret |-> "go", result |-> EmptyDict, parse_errors |-> FALSE, file |-> file,
                  stale |-> FALSE]
            ELSE LET prev == step[i - 1]
                     got == process_file_with_structure_jar(impl_, runs[i], prev.file)
                 IN IF prev.ret # "go" THEN prev
                    ELSE IF got.ret = "parse_error"
                        THEN [prev EXCEPT !.parse_errors = TRUE, !.file = got.file]
                    ELSE IF got.ret = "none"
                        THEN [prev EXCEPT !.ret = "none", !.file = got.file]
                    ELSE IF got.data.t # "dict"
                        THEN [prev EXCEPT !.ret = "none", !.file = got.file]
                    ELSE [prev EXCEPT
                            !.result = DictSetItem(prev.result,
                                            PyStr(DictGet(got.data, "name", VStr("Unknown"))),
                                            got.data),
                            !.file = got.file,
                            !.stale = prev.stale \/ runs[i].kind # "ok"]
        end == step[Len(runs)]
    IN IF Len(runs) = 0 THEN [ret |-> "none", file |-> file, stale |-> FALSE]
       ELSE IF end.ret = "none" THEN [ret |-> "none", file |-> end.file, stale |-> end.stale]
       ELSE IF impl_ = "main" /\ end.parse_errors /\ Len(end.result.keys) = 0
            THEN [ret |-> "parse_error", file |-> end.file, stale |-> end.stale]
       ELSE IF Len(end.result.keys) = 0
            THEN [ret |-> "none", file |-> end.file, stale |-> end.stale]
       ELSE [ret |-> "data", data |-> end.result, file |-> end.file, stale |-> end.stale]

\* Verdict with the two statuses exchanged.
Verdict_swapped(differences) == IF Len(differences) # 0 THEN "PASS" ELSE "FAIL"

\* "FAIL" if differences else "PASS"
Verdict(differences) == IF Len(differences) # 0 THEN "FAIL" ELSE "PASS"

Row(id, status, comments) == <<id, status, comments>>

\* results.sort(key=lambda x: x[0])
RECURSIVE InsertRow(_, _)
InsertRow(rows, row) ==
    IF Len(rows) = 0 THEN <<row>>
    ELSE IF StrLess(row[1], rows[Len(rows)][1])
        THEN Append(InsertRow(SubSeq(rows, 1, Len(rows) - 1), row), rows[Len(rows)])
    ELSE Append(rows, row)

RECURSIVE SortRows(_)
SortRows(rows) ==
    IF Len(rows) = 0 THEN <<>>
    ELSE InsertRow(SortRows(SubSeq(rows, 1, Len(rows) - 1)), rows[Len(rows)])

Init ==
    /\ impl \in Impls
    /\ op = "grade"
    /\ ref \in Solutions
    /\ stu = EmptyDict
    /\ path = ""
    /\ result = Ok(<<>>)
    /\ pc = "start"
    /\ jar_files \in JarLists
    /\ results = <<>>
    /\ json_out = <<>>
    /\ output_json = Absent
    /\ reports = <<>>
    /\ attempts = <<>>
    /\ extract_dirs = {}
    /\ NoBuild

\* The start of the run: solution.json and files.txt are read and the JARs
\* listed; the embedded grader gives up when there is none.
StartRun ==
    /\ pc = "start"
    /\ pc' = IF impl = "main" /\ Len(jar_files) = 0 THEN "failed" ELSE "loop"
    /\ UNCHANGED <<impl, op, ref, stu, path, result>>
    /\ UNCHANGED run_vars
    /\ UNCHANGED build_vars

\* One round of the loop over jar_files: extraction, structure generation,
\* comparison, the result row.
ProcessJar ==
    /\ pc = "loop"
    /\ Len(jar_files) > 0
    /\ \E unzip \in UnzipOutcomes, runs \in SeqsUpTo(ExtractorRuns, MaxFiles) :
        /\ impl = "script" => unzip # "timeout" /\ \A i \in 1..Len(runs) : runs[i].kind # "timeout"
        /\ ~extract_jar(impl, unzip) => runs = <<>>
        /\ \E generated \in {process_directory(impl, runs, output_json)} :
           \E differences \in {IF generated.ret = "data"
                               THEN compare_uml_files(impl, ref, generated.data)
                               ELSE Ok(<<>>)} :
           LET student_id == jar_files[1]
               compared == extract_jar(impl, unzip) /\ generated.ret = "data"
           IN
           /\ jar_files' = Tail(jar_files)
           /\ extract_dirs' = (extract_dirs \cup {student_id}) \ {student_id}
           /\ attempts' = Append(attempts,
                    [id |-> student_id,
                     failed |-> \E i \in 1..Len(runs) : runs[i].kind \in FailedRuns,
                     compared |-> compared,
                     stale |-> extract_jar(impl, unzip) /\ generated.stale])
           /\ ref' = IF compared
                     THEN args_after_compare_uml_files(impl, ref, generated.data).ref
                     ELSE ref
           /\ IF ~extract_jar(impl, unzip)
              THEN /\ results' = Append(results, Row(student_id, "ERROR", "Failed to extract JAR file"))
                   /\ pc' = pc
                   /\ UNCHANGED <<json_out, output_json>>
              ELSE /\ output_json' = generated.file
                   /\ IF generated.ret = "parse_error"
                      THEN /\ results' = Append(results, Row(student_id, "ERROR",
                                            "Parse error - likely syntax error in code"))
                           /\ pc' = pc
                           /\ UNCHANGED json_out
                      ELSE IF generated.ret = "none"
                      THEN /\ results' = Append(results, Row(student_id, "ERROR",
                                            "Failed to generate UML data"))
                           /\ pc' = pc
                           /\ UNCHANGED json_out
                      ELSE /\ json_out' = Append(json_out, [id |-> student_id, data |-> generated.data])
                           /\ IF differences.exc = ""
                              THEN /\ results' = Append(results, Row(student_id,
                                            Verdict(differences.out), Join("\n", differences.out)))
                                   /\ pc' = pc
                              ELSE IF impl = "main"
                              THEN /\ results' = Append(results, Row(student_id, "ERROR",
                                            "Processing failed: " \o differences.exc))
                                   /\ pc' = pc
                              ELSE /\ results' = results
                                   /\ pc' = "raised"
    /\ UNCHANGED <<impl, op, stu, path, result, reports>>
    /\ UNCHANGED build_vars

\* After the loop: the rows sorted by id and written to the two CSV files.
WriteReports ==
    /\ pc = "loop"
    /\ Len(jar_files) = 0
    /\ reports' = SortRows(results)
    /\ pc' = "written"
    /\ UNCHANGED <<impl, op, ref, stu, path, result, jar_files, results, json_out, output_json,
                   attempts, extract_dirs>>
    /\ UNCHANGED build_vars

Next == StartRun \/ ProcessJar \/ WriteReports

Spec == Init /\ [][Next]_vars

(***************************************************************************)
(* The procedures that work in a Docker container                          *)
(***************************************************************************)
Procs == {"build_structure_extractor", "run_grading_container", "build_py_main"}

BuildProcs == {"build_structure_extractor", "build_py_main"}

\* The first statement inside the try block.
first_step(proc_) ==
    IF proc_ \in BuildProcs THEN "create_source_archive" ELSE "install_python"

\* The steps whose Docker call is not wrapped in a try/except of its own: an
\* exception of theirs leaves the procedure as it is, the others end in
\* sys.exit(1).
Unwrapped == {"mvnw", "mvn", "mvn_installed", "install_python", "install_tqdm", "put_script",
              "run_grader"}

\* How the process ends after a step has failed.
exit_of(step, out) ==
    IF out = "raises" /\ step \in Unwrapped THEN Raise("APIError") ELSE Raise("SystemExit")

\* Where control goes when a statement inside the try block ends it early
\* (the process would end at once without the finally clause).
on_exit_skip_finally(step) == "ended"

\* sys.exit(1) or an exception inside try ... finally: the finally clause
\* runs before the process ends.
on_exit(step) == "cleanup"

\* The statement that follows a step, given its outcome ("0"/"1": exit code
\* of a command run in the container; "ok"/"raises": a Docker or file
\* operation).
next_step(step, out) ==
    IF step = "create_source_archive" THEN (IF out = "ok" THEN "put_archive" ELSE on_exit(step))
    ELSE IF step = "put_archive" THEN (IF out = "ok" THEN "mvnw" ELSE on_exit(step))
    ELSE IF step = "mvnw"
         THEN (IF out = "0" THEN "get_archive" ELSE IF out = "1" THEN "mvn" ELSE on_exit(step))
    ELSE IF step = "mvn"
         THEN (IF out = "0" THEN "get_archive"
               ELSE IF out = "1" THEN "install_maven" ELSE on_exit(step))
    ELSE IF step = "install_maven" THEN (IF out = "0" THEN "mvn_installed" ELSE on_exit(step))
    ELSE IF step = "mvn_installed" THEN (IF out = "0" THEN "get_archive" ELSE on_exit(step))
    ELSE IF step = "get_archive" THEN (IF out = "ok" THEN "save_jar" ELSE on_exit(step))
    ELSE IF step = "save_jar" THEN (IF out = "ok" THEN "cleanup" ELSE on_exit(step))
    ELSE IF step = "install_python" THEN (IF out = "0" THEN "install_tqdm" ELSE on_exit(step))
    ELSE IF step = "install_tqdm"
         THEN (IF out = "0" THEN "create_project_archive" ELSE on_exit(step))
    ELSE IF step = "create_project_archive"
         THEN (IF out = "ok" THEN "put_project" ELSE on_exit(step))
    ELSE IF step = "put_project" THEN (IF out = "ok" THEN "put_script" ELSE on_exit(step))
    ELSE IF step = "put_script" THEN (IF out = "ok" THEN "run_grader" ELSE on_exit(step))
    ELSE IF step = "run_grader" THEN (IF out = "0" THEN "copy_results" ELSE on_exit(step))
    ELSE IF step = "copy_results" THEN (IF out = "ok" THEN "cleanup" ELSE on_exit(step))
    ELSE "ended"

\* The step at pc has run with this outcome.
Stepped(out, succeeded) ==
    /\ trace' = Append(trace, [op |-> pc, out |-> out])
    /\ pc' = next_step(pc, out)
    /\ result' = IF out = succeeded THEN result ELSE exit_of(pc, out)
    /\ UNCHANGED <<impl, op, ref, stu, path, proc, container>>
    /\ UNCHANGED run_vars

InitBuild ==
    /\ proc \in Procs
    /\ pc = "create"
    /\ container = "none"
    /\ trace = <<>>
    /\ impl = "main"
    /\ op = "container"
    /\ ref = VNone
    /\ stu = VNone
    /\ path = ""
    /\ result = Ok(<<>>)
    /\ NoRun

\* client.containers.run(..., command="sleep infinity", detach=True, name=..).
\* On a name conflict main.py stops and removes the old container and creates
\* the new one; build.py gives up.
CreateContainer ==
    /\ pc = "create"
    /\ \E out \in {"ok", "conflict", "raises"}, again \in {"ok", "raises"} :
        /\ out # "conflict" \/ proc = "build_py_main" => again = "ok"
        /\ LET recreate == out = "conflict" /\ proc # "build_py_main"
               created == out = "ok" \/ (recreate /\ again = "ok")
           IN /\ trace' = <<[op |-> "create", out |-> out]>>
                          \o (IF recreate THEN <<[op |-> "recreate", out |-> again]>> ELSE <<>>)
              /\ container' = IF created THEN "running" ELSE "none"
              /\ pc' = IF created THEN first_step(proc) ELSE "ended"
              /\ result' = IF created THEN result ELSE Raise("SystemExit")
    /\ UNCHANGED <<impl, op, ref, stu, path, proc>>
    /\ UNCHANGED run_vars

\* create_source_archive / create_project_archive and container.put_archive
CopyIn ==
    /\ pc \in {"create_source_archive", "put_archive", "create_project_archive", "put_project",
               "put_script"}
    /\ \E out \in {"ok", "raises"} : Stepped(out, "ok")

\* One attempt to build the JAR: container.exec_run of ./mvnw or mvn
BuildAttempt ==
    /\ pc \in {"mvnw", "mvn", "mvn_installed"}
    /\ \E out \in {"0", "1", "raises"} : Stepped(out, "0")

\* container.exec_run of an installation (apt-get install maven, python3,
\* pip install tqdm)
InstallTool ==
    /\ pc \in {"install_maven", "install_python", "install_tqdm"}
    /\ \E out \in {"0", "1", "raises"} : Stepped(out, "0")

\* exec_create / exec_start / exec_inspect of grade_uml_structure.py
RunGrader ==
    /\ pc = "run_grader"
    /\ \E out \in {"0", "1", "raises"} : Stepped(out, "0")

\* container.get_archive and what is done with the archive (the JAR written
\* to structure-extractor.jar, the results moved to the output directory)
CopyOut ==
    /\ pc \in {"get_archive", "save_jar", "copy_results"}
    /\ \E out \in {"ok", "raises"} : Stepped(out, "ok")

\* finally: try: container.stop(); container.remove() except Exception: a
\* warning.  remove() is not called when stop() raised.
Cleanup ==
    /\ pc = "cleanup"
    /\ \E stop \in {"ok", "raises"}, remove \in {"ok", "raises"} :
        /\ stop = "raises" => remove = "ok"
        /\ trace' = Append(trace, [op |-> "stop", out |-> stop])
                    \o (IF stop = "ok" THEN <<[op |-> "remove", out |-> remove]>> ELSE <<>>)
        /\ container' = IF stop = "raises" THEN "running"
                        ELSE IF remove = "raises" THEN "stopped" ELSE "removed"
    /\ pc' = "ended"
    /\ UNCHANGED <<impl, op, ref, stu, path, result, proc>>
    /\ UNCHANGED run_vars

NextBuild ==
    CreateContainer \/ CopyIn \/ BuildAttempt \/ InstallTool \/ RunGrader \/ CopyOut \/ Cleanup

SpecBuild == InitBuild /\ [][NextBuild]_vars

(***************************************************************************)
(* Vocabulary of the properties                                            *)
(***************************************************************************)
\* A call of compare_values has returned a list of discrepancies.
ValueCallReturned == pc = "done" /\ op = "compare_values" /\ result.exc = ""

\* The path names none of the attributes with a strategy of their own.
Positional(p) ==
    \A suffix \in {".methods", ".fields", ".constructors", ".extends", ".implements"} :
        Len(p) < Len(suffix) \/ SubSeq(p, Len(p) - Len(suffix) + 1, Len(p)) # suffix

\* Concatenation of a sequence of sequences.
RECURSIVE Flatten(_)
Flatten(ss) == IF Len(ss) = 0 THEN <<>> ELSE ss[1] \o Flatten(Tail(ss))

\* The discrepancies reported at the node p or below it.
AtOrBelow(out, p) ==
    SelectSeq(out, LAMBDA m : StartsWith(m, p \o " - ") \/ StartsWith(m, p \o ".")
                                \/ StartsWith(m, p \o "["))

\* The number of discrepancies that start with the given text.
CountPrefix(out, prefix) == Len(SelectSeq(out, LAMBDA m : StartsWith(m, prefix)))

\* The number of discrepancies equal to the given text.
CountMsg(out, msg) == Len(SelectSeq(out, LAMBDA m : m = msg))

\* C5: when reference and candidate are of different kinds among Scalar,
\* Mapping and Sequence, compare_values returns exactly one discrepancy,
\* "<path> - Type mismatch: expected <type of ref>, got <type of cand>", and
\* nothing for the values below the node; a dict entry of mismatching kinds
\* contributes exactly that one discrepancy to the comparison of the dicts.
C5_VariantMismatch ==
    /\ (pc = "done" /\ op = "compare_values" /\ Kind(ref) # Kind(stu)) =>
            result = Ok(<<path \o " - Type mismatch: expected " \o ref.t \o ", got " \o stu.t>>)
    /\ (ValueCallReturned /\ ref.t = "dict" /\ stu.t = "dict") =>
            \A i \in 1..Len(ref.keys) : \A j \in 1..Len(stu.keys) :
                (ref.keys[i] = stu.keys[j] /\ Kind(ref.vals[i]) # Kind(stu.vals[j])) =>
                    AtOrBelow(result.out, path \o "." \o ref.keys[i]) =
                        <<path \o "." \o ref.keys[i] \o " - Type mismatch: expected "
                            \o ref.vals[i].t \o ", got " \o stu.vals[j].t>>

\* C5 witness: a non-empty mapping was compared with a non-empty sequence
\* and one discrepancy came back.
C5_Witness ==
    /\ pc = "done" /\ op = "compare_values"
    /\ ref.t = "dict" /\ stu.t = "list"
    /\ Len(ref.keys) > 0 /\ Len(stu.items) > 0
    /\ Len(result.out) = 1

\* C6 as claimed: for any two scalars, nothing when they are equal under
\* value equality, else exactly one "Value mismatch" discrepancy.
C6_ScalarAnyCombination ==
    (pc = "done" /\ op = "compare_values" /\ IsScalar(ref) /\ IsScalar(stu)) =>
        result = IF PyEq(ref, stu) THEN Ok(<<>>)
                 ELSE Ok(<<path \o " - Value mismatch: expected " \o ref.s \o ", got " \o stu.s>>)

\* C6 amended: for two scalars of the same type (both str, both int, both
\* float, both bool or both None), nothing when they are equal, else exactly
\* one "Value mismatch" discrepancy; two scalars of different types yield
\* exactly one "Type mismatch" discrepancy, even when they are equal as
\* numbers (1, 1.0 and True).
C6_ScalarSameType ==
    (pc = "done" /\ op = "compare_values" /\ IsScalar(ref) /\ IsScalar(stu)) =>
        result = IF ref.t # stu.t
                 THEN Ok(<<path \o " - Type mismatch: expected " \o ref.t \o ", got " \o stu.t>>)
                 ELSE IF ref.s = stu.s THEN Ok(<<>>)
                 ELSE Ok(<<path \o " - Value mismatch: expected " \o ref.s \o ", got " \o stu.s>>)

\* C6 witness: two different scalars of one type were compared and a Value
\* mismatch was reported.
C6_Witness ==
    /\ pc = "done" /\ op = "compare_values"
    /\ ref.t = "int" /\ stu.t = "int" /\ ref.n # stu.n
    /\ Len(result.out) = 1

\* C7: for two mappings the result is, for the reference keys in reference
\* order, "<path>.<key> - Missing key" when the candidate lacks the key and
\* else the comparison of the two values at "<path>.<key>", followed by
\* "<path>.<key> - Extra key" for the keys only the candidate has, in
\* candidate order.
C7_MappingOrder ==
    (ValueCallReturned /\ ref.t = "dict" /\ stu.t = "dict") =>
        result.out =
            Flatten([i \in 1..Len(ref.keys) |->
                IF ref.keys[i] \notin Range(stu.keys)
                THEN <<path \o "." \o ref.keys[i] \o " - Missing key">>
                ELSE compare_values(impl, ref.vals[i],
                        stu.vals[CHOOSE j \in 1..Len(stu.keys) : stu.keys[j] = ref.keys[i]],
                        path \o "." \o ref.keys[i]).out])
            \o Flatten([j \in 1..Len(stu.keys) |->
                IF stu.keys[j] \notin Range(ref.keys)
                THEN <<path \o "." \o stu.keys[j] \o " - Extra key">>
                ELSE <<>>])

\* C7 witness: the reference has a key the candidate lacks, declared before
\* a shared key whose values differ, and the candidate has the same two keys
\* the other way round or a key of its own; three or more discrepancies or a
\* Missing key followed by a deeper one came back.
C7_Witness ==
    /\ ValueCallReturned /\ ref.t = "dict" /\ stu.t = "dict"
    /\ ref.keys = <<"a", "b">> /\ stu.keys = <<"b">>
    /\ Len(result.out) = 2
    /\ result.out[1] = path \o ".a - Missing key"
    /\ StartsWith(result.out[2], path \o ".b")

\* C8: two positional sequences of differing length yield exactly one
\* discrepancy, the Length mismatch, whatever their elements; sequences of
\* equal length are compared element-wise at "<path>[i]".
C8_LengthShortCircuit ==
    (ValueCallReturned /\ ref.t = "list" /\ stu.t = "list" /\ Positional(path)) =>
        IF Len(ref.items) # Len(stu.items)
        THEN /\ Len(result.out) = 1
             /\ StartsWith(result.out[1], path \o " - Length mismatch: ")
        ELSE result.out =
                Flatten([i \in 1..Len(ref.items) |->
                    compare_values(impl, ref.items[i], stu.items[i],
                                   path \o "[" \o ToString(i - 1) \o "]").out])

\* A call of compare_values on the two structures of class Foo has ended.
ClassCallDone == pc = "done" /\ op = "compare_values" /\ path = "Class Foo"

\* A call of compare_uml_files has ended.
CorpusCallDone == pc = "done" /\ op = "compare_uml_files"

\* The value of attribute k of a mapping that has it.
Attr(v, k) == v.vals[CHOOSE i \in 1..Len(v.keys) : v.keys[i] = k]

HasAttr(v, k) == v.t = "dict" /\ k \in Range(v.keys)

\* C1: comparing a class structure against itself at "Class <name>", a
\* corpus against itself, or any value against itself, returns an empty
\* discrepancy list.
C1_Reflexivity ==
    /\ (ClassCallDone /\ ref = stu) => result = Ok(<<>>)
    /\ (CorpusCallDone /\ ref = stu) => result = Ok(<<>>)
    /\ (ValueCallReturned /\ ref = stu) => result.out = <<>>

\* C1 witness: a class with two or more fields and an unsorted extends list
\* was compared against itself.
C1_Witness ==
    /\ ClassCallDone /\ ref = stu /\ result = Ok(<<>>)
    /\ HasAttr(ref, "fields") /\ Len(Attr(ref, "fields").items) >= 2
    /\ HasAttr(ref, "extends") /\ Attr(ref, "extends").items = <<VStr("B"), VStr("A")>>

\* The number of occurrences of x in a sequence.
Occurrences(x, xs) == Cardinality({i \in 1..Len(xs) : xs[i] = x})

SameMultiset(xs, ys) == \A x \in Range(xs) \cup Range(ys) : Occurrences(x, xs) = Occurrences(x, ys)

\* The sorted arrangement of a sequence of strings.
SortedArrangement(xs) ==
    CHOOSE p \in [1..Len(xs) -> Range(xs)] :
        /\ SameMultiset(p, xs)
        /\ \A i, j \in 1..Len(xs) : i < j => ~StrLess(p[j].s, p[i].s)

\* C9: the extends and implements lists are compared as multisets: nothing
\* is reported when one is a permutation of the other, and any multiset
\* difference yields exactly one discrepancy listing both sorted lists.
C9_UnorderedSet ==
    ClassCallDone =>
        \A attr \in {"extends", "implements"} :
            (HasAttr(ref, attr) /\ HasAttr(stu, attr)) =>
                LET r == Attr(ref, attr).items
                    c == Attr(stu, attr).items
                    p == path \o "." \o attr
                IN /\ result.exc = ""
                   /\ AtOrBelow(result.out, p) =
                        IF SameMultiset(r, c) THEN <<>>
                        ELSE <<p \o " - Content mismatch: expected "
                                 \o PyRepr(VList(SortedArrangement(r))) \o ", got "
                                 \o PyRepr(VList(SortedArrangement(c)))>>

\* C9 witness: two unsorted extends lists with the same elements in
\* different multiplicity were compared and one discrepancy came back.
C9_Witness ==
    /\ ClassCallDone
    /\ HasAttr(ref, "extends") /\ HasAttr(stu, "extends")
    /\ Attr(ref, "extends").items = <<VStr("B"), VStr("A")>>
    /\ Attr(stu, "extends").items = <<VStr("B"), VStr("B")>>
    /\ Len(result.out) = 1

\* The signature of an entry of a keyed collection, as the path shows it:
\* the name of a field, "name(params)" of a method, "constructor(params)".
StrItems(v) == [i \in 1..Len(v.items) |-> v.items[i].s]

SigText(attr, e) ==
    LET name == IF HasAttr(e, "name") THEN Attr(e, "name").s ELSE ""
        params == IF HasAttr(e, "params") THEN Join(",", StrItems(Attr(e, "params"))) ELSE ""
    IN IF attr = "fields" THEN name
       ELSE IF attr = "methods" THEN name \o "(" \o params \o ")"
       ELSE "constructor(" \o params \o ")"

SigTexts(attr, es) == {SigText(attr, es[i]) : i \in 1..Len(es)}

\* The entry that stands for a signature: the last one that has it.
LastWithSig(attr, es, sig) ==
    es[CHOOSE i \in 1..Len(es) :
        /\ SigText(attr, es[i]) = sig
        /\ \A j \in 1..Len(es) : SigText(attr, es[j]) = sig => j <= i]

\* C10: for fields, methods and constructors, each key only the reference
\* has yields exactly one "Missing" discrepancy at the collection path, each
\* key only the candidate has exactly one "Extra" discrepancy, each key on
\* both sides yields the comparison of the two entries at the collection
\* path extended by the signature, and nothing else is reported.
C10_KeyedCollections ==
    ClassCallDone =>
        \A attr \in KeyedAttrs :
            (HasAttr(ref, attr) /\ HasAttr(stu, attr)) =>
                LET r == Attr(ref, attr).items
                    c == Attr(stu, attr).items
                    p == path \o "." \o attr
                    R == SigTexts(attr, r)
                    S == SigTexts(attr, c)
                    out == AtOrBelow(result.out, p)
                IN /\ result.exc = ""
                   /\ CountPrefix(out, p \o " - Missing ") = Cardinality(R \ S)
                   /\ CountPrefix(out, p \o " - Extra ") = Cardinality(S \ R)
                   /\ \A sig \in R \cap S :
                        AtOrBelow(out, p \o "." \o sig) =
                            compare_values(impl, LastWithSig(attr, r, sig),
                                LastWithSig(attr, c, sig), p \o "." \o sig).out
                   /\ \A i \in 1..Len(out) :
                        \/ StartsWith(out[i], p \o " - Missing ")
                        \/ StartsWith(out[i], p \o " - Extra ")
                        \/ \E sig \in R \cap S : AtOrBelow(<<out[i]>>, p \o "." \o sig) # <<>>

\* C10 witness: Scenario 4 of the spec with a field only the reference has:
\* field x differs in type and field y is missing.
C10_Witness ==
    /\ ClassCallDone
    /\ HasAttr(ref, "fields") /\ HasAttr(stu, "fields")
    /\ Attr(ref, "fields").items = <<Field("x", "int"), Field("y", "int")>>
    /\ Attr(stu, "fields").items = <<Field("x", "long")>>
    /\ result = Ok(<<"Class Foo.fields.x.type - Value mismatch: expected int, got long",
                     "Class Foo.fields - Missing field: y">>)

\* The class names of a corpus: the keys of a mapping, the name attributes
\* of the entries of a sequence that have one.
NamedEntries(c) == SelectSeq(c.items, LAMBDA e : HasAttr(e, "name"))

NameSeq(c) == [i \in 1..Len(NamedEntries(c)) |-> Attr(NamedEntries(c)[i], "name").s]

CorpusNames(c) == IF c.t = "dict" THEN Range(c.keys) ELSE Range(NameSeq(c))

\* The structure a corpus holds for a name: of a sequence, the last entry
\* with that name.
CorpusClass(c, name) ==
    IF c.t = "dict" THEN Attr(c, name)
    ELSE LET es == NamedEntries(c)
         IN es[CHOOSE i \in 1..Len(es) :
                /\ NameSeq(c)[i] = name
                /\ \A j \in 1..Len(es) : NameSeq(c)[j] = name => j <= i]

\* C3: compare_uml_files reports exactly one "Missing class: <name>" for
\* every name only the reference corpus has, exactly one "Extra class:
\* <name>" for every name only the candidate corpus has, for every name on
\* both sides exactly the discrepancies of comparing the two structures at
\* "Class <name>", and nothing else.
C3_CorpusComparison ==
    CorpusCallDone =>
        LET R == CorpusNames(ref)
            S == CorpusNames(stu)
            out == result.out
        IN /\ result.exc = ""
           /\ \A n \in R \ S : CountMsg(out, "Missing class: " \o n) = 1
           /\ \A n \in S \ R : CountMsg(out, "Extra class: " \o n) = 1
           /\ \A n \in R \cap S :
                AtOrBelow(out, "Class " \o n) =
                    compare_values(impl, CorpusClass(ref, n), CorpusClass(stu, n),
                                   "Class " \o n).out
           /\ \A i \in 1..Len(out) :
                \/ \E n \in R \ S : out[i] = "Missing class: " \o n
                \/ \E n \in S \ R : out[i] = "Extra class: " \o n
                \/ \E n \in R \cap S : AtOrBelow(<<out[i]>>, "Class " \o n) # <<>>

\* C3 witness: Scenario 3 of the spec with a differing class Foo and a class
\* only the candidate has.
C3_Witness ==
    /\ CorpusCallDone
    /\ ref = VList(<<Foo1, Bar1>>)
    /\ stu = VDict(<<"Foo">>, <<Foo2>>)
    /\ result = Ok(<<"Class Foo.fields.x.type - Value mismatch: expected int, got long",
                     "Missing class: Bar">>)

\* The first occurrences of the elements of a sequence, in order.
RECURSIVE Dedup(_)
Dedup(xs) ==
    IF Len(xs) = 0 THEN <<>>
    ELSE LET front == Dedup(SubSeq(xs, 1, Len(xs) - 1))
         IN IF xs[Len(xs)] \in Range(front) THEN front ELSE Append(front, xs[Len(xs)])

\* The mapping name -> ClassStructure built from a sequence.
MappingOf(c) ==
    LET names == Dedup(NameSeq(c))
    IN VDict(names, [i \in 1..Len(names) |-> CorpusClass(c, names[i])])

\* C4: a reference corpus given as a sequence gives the same result as the
\* mapping name -> ClassStructure built from it: the entries without a name
\* are dropped and contribute no discrepancy, and of several entries with
\* one name the last is compared.
C4_CorpusNormalization ==
    (CorpusCallDone /\ ref.t = "list") =>
        /\ result = compare_uml_files(impl, MappingOf(ref), stu)
        /\ result.exc = ""

\* C4 witness: a reference sequence with an entry without a name and two
\* entries named Foo, of which the last equals the candidate's Foo.
C4_Witness ==
    /\ CorpusCallDone
    /\ ref = VList(<<Foo2, NoName, Foo1>>)
    /\ stu = VDict(<<"Foo">>, <<Foo1>>)
    /\ result = Ok(<<>>)

\* The rows of submissions whose structures were extracted carry the
\* verdict of the comparison of the reference with the dumped student_data.
VerdictRows(rows) ==
    \A i \in 1..Len(rows) :
        /\ \A j \in 1..Len(json_out) :
            json_out[j].id = rows[i][1] =>
                LET differences == compare_uml_files(impl, ref, json_out[j].data)
                IN differences.exc = "" =>
                    rows[i][2] = IF differences.out = <<>> THEN "PASS" ELSE "FAIL"
        /\ rows[i][2] \in {"PASS", "FAIL"} =>
            \E j \in 1..Len(json_out) : json_out[j].id = rows[i][1]

\* C2: for every submission whose class structures were extracted, the
\* status in the results, and in the reports once written, is PASS if
\* compare_uml_files returned an empty list and FAIL if it returned
\* discrepancies.
C2_Verdict == VerdictRows(results) /\ VerdictRows(reports)

\* C2 witness: the reports were written with a PASS row and a FAIL row.
C2_Witness ==
    /\ pc = "written"
    /\ \E i, j \in 1..Len(reports) : reports[i][2] = "PASS" /\ reports[j][2] = "FAIL"

\* A mapping with the value of attribute k replaced.
WithAttr(v, k, val) == VDict(v.keys, [i \in 1..Len(v.keys) |-> IF v.keys[i] = k THEN val ELSE v.vals[i]])

\* The arrangements of a sequence.
Arrangements(xs) ==
    {[i \in 1..Len(xs) |-> xs[f[i]]] :
        f \in {g \in [1..Len(xs) -> 1..Len(xs)] : \A i, j \in 1..Len(xs) : i # j => g[i] # g[j]}}

\* C11: for two structures of a class, permuting the methods list, the
\* fields list or the constructors list of the reference or of the candidate
\* never changes the set of discrepancies compare_values returns.
C11_OrderIndependence ==
    ClassCallDone =>
        \A attr \in KeyedAttrs :
            (HasAttr(ref, attr) /\ HasAttr(stu, attr)) =>
                \A r \in Arrangements(Attr(ref, attr).items) :
                    \A c \in Arrangements(Attr(stu, attr).items) :
                        LET other == compare_values(impl, WithAttr(ref, attr, VList(r)),
                                        WithAttr(stu, attr, VList(c)), path)
                        IN /\ other.exc = result.exc
                           /\ Range(other.out) = Range(result.out)

\* The number of discrepancies that contain the given text.
CountContains(out, text) == Len(SelectSeq(out, LAMBDA m : Contains(m, text)))

\* C12: the number of "Missing" discrepancies of A as reference against B as
\* candidate equals the number of "Extra" discrepancies of B as reference
\* against A as candidate, and the other way round: for the fields, methods
\* and constructors of two structures of a class, and for the classes (and
\* everything below them) of two corpora.
C12_MissingExtraSymmetry ==
    /\ ClassCallDone =>
        LET back == compare_values(impl, stu, ref, path)
        IN /\ result.exc = "" /\ back.exc = ""
           /\ \A attr \in KeyedAttrs :
                LET p == path \o "." \o attr
                IN /\ CountPrefix(result.out, p \o " - Missing ")
                        = CountPrefix(back.out, p \o " - Extra ")
                   /\ CountPrefix(result.out, p \o " - Extra ")
                        = CountPrefix(back.out, p \o " - Missing ")
    /\ CorpusCallDone =>
        LET back == compare_uml_files(impl, stu, ref)
        IN /\ result.exc = "" /\ back.exc = ""
           /\ CountPrefix(result.out, "Missing class: ") = CountPrefix(back.out, "Extra class: ")
           /\ CountPrefix(result.out, "Extra class: ") = CountPrefix(back.out, "Missing class: ")
           /\ CountContains(result.out, " - Missing ") = CountContains(back.out, " - Extra ")
           /\ CountContains(result.out, " - Extra ") = CountContains(back.out, " - Missing ")

\* C12 witness: the reference has two methods the candidate lacks and the
\* candidate one method the reference lacks.
C12_Witness ==
    /\ ClassCallDone
    /\ HasAttr(ref, "methods") /\ HasAttr(stu, "methods")
    /\ CountPrefix(result.out, "Class Foo.methods - Missing method: ") = 2
    /\ CountPrefix(result.out, "Class Foo.methods - Extra method: ") = 1

\* C13: for every pair of StructuredValues (any nesting of scalars, mappings
\* and sequences, sequences of non-mapping or mixed elements under fields or
\* extends included), at any path, compare_values returns a list of
\* discrepancies and raises no exception.
C13_DifferNeverRaises ==
    (pc = "done" /\ op = "compare_values") => result.exc = ""

\* The paths of the class-level attributes with a strategy of their own.
ClassLevelPaths == {"Class Foo." \o attr : attr \in KeyedAttrs \cup SortedAttrs}

\* C17: the keyed and the unordered-set strategies apply to the class-level
\* attributes fields, methods, constructors, extends and implements only:
\* two sequences at any other path, such as an attribute of a field entry
\* whatever it is called, are compared by the positional rule.
C17_FixedAttributePolicy ==
    (pc = "done" /\ op = "compare_values" /\ ref.t = "list" /\ stu.t = "list"
        /\ path \notin ClassLevelPaths) =>
            result = compare_positional(impl, ref, stu, path)

\* An entry lacks an attribute its key is built from.
Malformed(attr, e) ==
    \/ attr \in {"fields", "methods"} /\ ~HasAttr(e, "name")
    \/ attr \in {"methods", "constructors"} /\ ~HasAttr(e, "params")

\* The description of an entry in a Missing / Extra discrepancy, with the
\* empty string for an absent name and the empty list for absent params.
EntryText(attr, e) ==
    LET name == IF HasAttr(e, "name") THEN Attr(e, "name").s ELSE ""
        params == IF HasAttr(e, "params") THEN PyRepr(Attr(e, "params")) ELSE "[]"
    IN IF attr = "fields" THEN "field: " \o name
       ELSE IF attr = "methods" THEN "method: " \o name \o " with params " \o params
       ELSE "constructor with params " \o params

\* C14: the comparison of two keyed collections completes without an
\* exception when entries lack name or params; such an entry is keyed with
\* the empty string for the name and the empty list for the params: it is
\* reported as exactly one Missing (in the reference) or Extra (in the
\* candidate) discrepancy when the other side has no entry with that key,
\* and is else compared with the other side's entry of that key.
C14_MalformedEntries ==
    ClassCallDone =>
        \A attr \in KeyedAttrs :
            (HasAttr(ref, attr) /\ HasAttr(stu, attr)) =>
                LET r == Attr(ref, attr).items
                    c == Attr(stu, attr).items
                    p == path \o "." \o attr
                IN /\ result.exc = ""
                   /\ \A i \in 1..Len(r) : Malformed(attr, r[i]) =>
                        LET sig == SigText(attr, r[i])
                        IN IF sig \notin SigTexts(attr, c)
                           THEN CountMsg(result.out, p \o " - Missing " \o EntryText(attr, r[i])) = 1
                           ELSE AtOrBelow(result.out, p \o "." \o sig) =
                                    compare_values(impl, LastWithSig(attr, r, sig),
                                        LastWithSig(attr, c, sig), p \o "." \o sig).out
                   /\ \A j \in 1..Len(c) : Malformed(attr, c[j]) =>
                        LET sig == SigText(attr, c[j])
                        IN sig \notin SigTexts(attr, r) =>
                            CountMsg(result.out, p \o " - Extra " \o EntryText(attr, c[j])) = 1

\* C14 witness: a reference method without a name and a reference method
\* without params against a candidate method m(int): the first is missing
\* under the name "", the second under the params [], m(int) is extra.
C14_Witness ==
    /\ ClassCallDone
    /\ HasAttr(ref, "methods") /\ HasAttr(stu, "methods")
    /\ Len(Attr(ref, "methods").items) = 2
    /\ ~HasAttr(Attr(ref, "methods").items[1], "name")
    /\ ~HasAttr(Attr(ref, "methods").items[2], "params")
    /\ result = Ok(<<"Class Foo.methods - Missing method:  with params ['int']",
                     "Class Foo.methods - Missing method: m with params []",
                     "Class Foo.methods - Extra method: m with params ['int']">>)

\* A keyed collection with, for every key, the last entry of that key
\* only, in the order in which the keys first occur.
Collapse(attr, es) ==
    LET sigs == Dedup([i \in 1..Len(es) |-> SigText(attr, es[i])])
    IN [k \in 1..Len(sigs) |-> LastWithSig(attr, es, sigs[k])]

\* C19: when several entries of fields, methods or constructors on one side
\* have the same key, the result is that of the comparison in which every
\* key is represented by its last entry alone: the earlier entries take no
\* part and produce no discrepancy.
C19_LastWriteWins ==
    ClassCallDone =>
        \A attr \in KeyedAttrs :
            (HasAttr(ref, attr) /\ HasAttr(stu, attr)) =>
                result = compare_values(impl,
                            WithAttr(ref, attr, VList(Collapse(attr, Attr(ref, attr).items))),
                            WithAttr(stu, attr, VList(Collapse(attr, Attr(stu, attr).items))),
                            path)

\* C19 witness: the reference declares the constructor (int) twice, private
\* last, and the candidate declares it public: the visibility of the last
\* is compared and nothing is reported for the first.
C19_Witness ==
    /\ ClassCallDone
    /\ HasAttr(ref, "constructors") /\ HasAttr(stu, "constructors")
    /\ Attr(ref, "constructors").items = <<Ctor(<<"int">>, "public"), Ctor(<<"int">>, "private")>>
    /\ Attr(stu, "constructors").items = <<Ctor(<<"int">>, "public")>>
    /\ result = Ok(<<"Class Foo.constructors.constructor(int).visibility - Value mismatch: expected private, got public">>)

\* C18: the discrepancy reported for two positional sequences of differing
\* length is "<path> - Length mismatch: expected <refLen>, got <candLen>"
\* with the lengths of the reference and of the candidate sequence.
C18_LengthMismatchForm ==
    (ValueCallReturned /\ ref.t = "list" /\ stu.t = "list" /\ Positional(path)
        /\ Len(ref.items) # Len(stu.items)) =>
            /\ Len(result.out) >= 1
            /\ result.out[1] = path \o " - Length mismatch: expected "
                    \o ToString(Len(ref.items)) \o ", got " \o ToString(Len(stu.items))

\* C20: for every reference and candidate corpus, compare_uml_files of the
\* standalone script and compare_uml_files of the embedded grader return the
\* same sequence of discrepancies (or raise the same exception).
C20_CopiesAgree ==
    CorpusCallDone =>
        compare_uml_files("script", ref, stu) = compare_uml_files("main", ref, stu)

C15_ErrorOnExtractorFailure ==
    \A i \in 1..Len(attempts) :
        attempts[i].failed =>
            /\ ~attempts[i].compared
            /\ \A j \in 1..Len(results) :
                    results[j][1] = attempts[i].id => results[j][2] = "ERROR"

\* C21: output.json is absent whenever the extractor is about to be run on
\* the first file of a submission, and the data loaded for a file is always
\* what the run of the extractor on that file wrote, also after runs that
\* failed or wrote text that is no JSON.
C21_SharedOutput ==
    /\ pc = "loop" => output_json = Absent
    /\ \A i \in 1..Len(attempts) : ~attempts[i].stale

\* The rows of the submission with this id.
RowsOf(rows, id) == {i \in 1..Len(rows) : rows[i][1] = id}

\* C22: every submission processed has exactly one result row, with status
\* PASS, FAIL or ERROR; no round of the loop ends the run by an exception;
\* once the loop is over the CSV rows are all the rows, sorted by id; and no
\* temporary extraction directory is left when the next submission starts.
C22_OneRowPerJar ==
    /\ pc # "raised"
    /\ extract_dirs = {}
    /\ Len(results) = Len(attempts)
    /\ \A i \in 1..Len(attempts) :
          /\ Cardinality(RowsOf(results, attempts[i].id)) = 1
          /\ \A j \in RowsOf(results, attempts[i].id) : results[j][2] \in {"PASS", "FAIL", "ERROR"}
    /\ pc = "written" =>
          /\ jar_files = <<>>
          /\ Len(reports) = Len(results)
          /\ \A i \in 1..Len(attempts) : Cardinality(RowsOf(reports, attempts[i].id)) = 1
          /\ \A i \in 1..(Len(reports) - 1) : ~StrLess(reports[i + 1][1], reports[i][1])

\* The container has been created in this run.
Created == \E i \in 1..Len(trace) : trace[i].op \in {"create", "recreate"} /\ trace[i].out = "ok"

\* The positions of the trace where this operation was attempted.
Tried(o) == {i \in 1..Len(trace) : trace[i].op = o}

\* The build attempts of the trace.
AttemptOps == {"mvnw", "mvn", "mvn_installed"}

\* C23: once the container has been created, the process ends only after
\* the cleanup has been attempted: stop() has been called after every other
\* step and, unless stop() raised, remove() right after it.  The first build
\* attempt is mvnw; mvn is tried only right after mvnw exited non-zero;
\* Maven is installed only right after that mvn exited non-zero and mvn is
\* tried again only right after the installation exited 0; the JAR is
\* fetched only right after an attempt that exited 0.
C23_ContainerCleanup ==
    /\ pc = "ended" /\ Created =>
          \E i \in Tried("stop") :
              /\ \A j \in 1..Len(trace) : j > i => trace[j].op = "remove" /\ j = i + 1
              /\ trace[i].out = "ok" => Tried("remove") = {i + 1}
    /\ pc \notin {"create", "cleanup", "ended"} => container = "running"
    /\ \A i \in 1..Len(trace) :
          /\ trace[i].op = "mvnw" => \A j \in 1..(i - 1) : trace[j].op \notin AttemptOps
          /\ trace[i].op = "mvn" => i > 1 /\ trace[i - 1] = [op |-> "mvnw", out |-> "1"]
          /\ trace[i].op = "install_maven" => i > 1 /\ trace[i - 1] = [op |-> "mvn", out |-> "1"]
          /\ trace[i].op = "mvn_installed" =>
                i > 1 /\ trace[i - 1] = [op |-> "install_maven", out |-> "0"]
          /\ trace[i].op = "get_archive" =>
                i > 1 /\ trace[i - 1].op \in AttemptOps /\ trace[i - 1].out = "0"

\* A build that was aborted after Maven had been installed and the third
\* attempt failed, and a grading run aborted by a failing result copy, have
\* ended.
C23_Witness ==
    /\ pc = "ended"
    /\ Created
    /\ result.exc # ""
    /\ Tried("stop") # {}
    /\ \/ \E i \in Tried("mvn_installed") : trace[i].out = "1"
       \/ \E i \in Tried("copy_results") : trace[i].out = "raises"

====
